---- MODULE Spec2Model ----
(***************************************************************************)
(* Granola local-cache integration (src/src/main/granola.ts) with its IPC  *)
(* handlers (registerGranolaHandlers).  The model covers the loader        *)
(* (loadCacheImpl / loadCache with promise de-duplication), the two query  *)
(* operations and the file system they read.  Every fs call is split into  *)
(* the moment the file system is observed and the moment its callback      *)
(* runs on the event loop; everything between two awaits is one step.      *)
(***************************************************************************)
EXTENDS Integers, Sequences, FiniteSets, TLC

\* ------------------------------------------------------------------ bounds
MaxCalls == 3       \* query calls issued in one behaviour
MaxEnv == 2         \* changes made by the external application
MaxTime == 2        \* last value of the clock (it starts at 1)
MaxDocs == 2        \* documents in a generated cache state (SpecQuery)

\* -------------------------------------------------------- JSON value model
\* A JS value is a record tagged by k.  Absent is `undefined` (a missing
\* field), Null is JSON null.
Absent == [k |-> "absent"]
Null == [k |-> "null"]
Str(s) == [k |-> "str", s |-> s]
Num(n) == [k |-> "num", n |-> n]
Arr(a) == [k |-> "arr", a |-> a]
\* An object used as a map: its entries in insertion order.
Map(m) == [k |-> "map", m |-> m]
Entry(key, val) == [key |-> key, val |-> val]

\* JS truthiness of the values above.
Truthy(v) ==
    CASE v.k = "str" -> v.s # ""
      [] v.k = "num" -> v.n # 0
      [] v.k \in {"absent", "null"} -> FALSE
      [] OTHER -> TRUE

\* interface CacheDoc; a member of `documents` may also be null.
CacheDoc(id, title, created_at, deleted_at, people) ==
    [k |-> "doc", id |-> id, title |-> title, created_at |-> created_at,
     deleted_at |-> deleted_at, people |-> people]
Person(name, email) == [k |-> "person", name |-> name, email |-> email]
\* interface CacheSegment
CacheSegment(text) == [k |-> "seg", text |-> text]
\* interface CacheState
CacheState(documents, transcripts) ==
    [k |-> "state", documents |-> documents, transcripts |-> transcripts]

\* A JSON text is modelled by what JSON.parse makes of it: a syntax error or
\* the value it denotes.
BadText == [ok |-> FALSE, v |-> Null]
Text(v) == [ok |-> TRUE, v |-> v]
\* The envelope { cache: ... } and the inner document { state: ... }.
Envelope(cache) == [k |-> "envelope", cache |-> cache]
Inner(state) == [k |-> "inner", state |-> state]
\* A string field holding a JSON text.
StrText(t) == [k |-> "strtext", t |-> t]

\* A file holding a well-formed cache of state s.
CacheFile(s) == Text(Envelope(StrText(Text(Inner(s)))))

\* ------------------------------------------------------------------ decode
\* granola.ts 83-105: the body of the try block after readFile.  The outcome
\* is "ok" (state decoded), "error" (return { error } inside the try, the
\* catch block does not run) or "throw" (the catch block runs).
Decode(text) ==
    IF ~text.ok THEN [out |-> "throw", state |-> Null]                  \* JSON.parse(raw) throws
    ELSE IF text.v.k = "null" THEN [out |-> "throw", state |-> Null]    \* null.cache: TypeError
    ELSE IF text.v.cache.k # "strtext" THEN [out |-> "error", state |-> Null]
    ELSE LET t == text.v.cache.t IN
         IF ~t.ok THEN [out |-> "throw", state |-> Null]                \* JSON.parse(outer.cache) throws
         ELSE IF t.v.k = "null" THEN [out |-> "throw", state |-> Null]  \* null.state: TypeError
         ELSE IF ~Truthy(t.v.state) THEN [out |-> "error", state |-> Null]
         ELSE [out |-> "ok", state |-> t.v.state]

\* ------------------------------------------------------------ result types
\* type LoadCacheResult (granola.ts 44).  src is the number of the file write
\* whose content the state was decoded from (history only, not program state).
LoadOk(state, ageMs, src) == [error |-> "", state |-> state, ageMs |-> ageMs, src |-> src]
LoadError(e) == [error |-> e, state |-> Null, ageMs |-> 0, src |-> 0]
NoLoadResult == [error |-> "pending", state |-> Null, ageMs |-> 0, src |-> 0]

\* type GranolaResult<T>; "rejected" is the promise rejecting with an exception.
Success(data, age) == [kind |-> "success", error |-> "", data |-> data, cacheAge |-> Num(age)]
Failure(e) == [kind |-> "failure", error |-> e, data |-> <<>>, cacheAge |-> Absent]
Rejected == [kind |-> "rejected", error |-> "", data |-> <<>>, cacheAge |-> Absent]
Pending == [kind |-> "pending", error |-> "", data |-> <<>>, cacheAge |-> Absent]
\* type GranolaErrorType of the local-cache core
GranolaErrorType == {"not_installed", "cache_not_found", "cache_parse_error"}

\* --------------------------------------------------------------- normalizer
NaN == -1
\* new Date(value).getTime() on the date strings the model uses.
DateMs(s) ==
    CASE s = "1970-01-01T00:00:00.001Z" -> 1
      [] s = "1970-01-01T00:00:00.002Z" -> 2
      [] s = "1970-01-01T00:00:00.003Z" -> 3
      [] OTHER -> NaN

\* parseEpoch(value) with Date.now() = t
parseEpoch(value, t) ==
    IF ~Truthy(value) THEN t
    ELSE LET ms == DateMs(value.s) IN IF ms = NaN THEN t ELSE ms

\* Object.values(obj) of a map
Values(obj) == [i \in 1..Len(obj.m) |-> obj.m[i].val]
\* obj[key]
Lookup(obj, key) ==
    IF \E i \in 1..Len(obj.m) : obj.m[i].key = key
    THEN obj.m[CHOOSE i \in 1..Len(obj.m) : obj.m[i].key = key].val
    ELSE Absent
\* state.documents || {}, state.transcripts || {}
DocsOf(state) ==
    IF state.k = "state" /\ Truthy(state.documents) THEN state.documents ELSE Map(<<>>)
TranscriptsOf(state) ==
    IF state.k = "state" /\ Truthy(state.transcripts) THEN state.transcripts ELSE Map(<<>>)

\* Variant: any entry for the id counts.
HasEntry(transcripts, id) == Lookup(transcripts, id).k # "absent"
\* Array.isArray(transcripts[id]) && transcripts[id].length > 0
HasSegments(transcripts, id) ==
    LET segs == Lookup(transcripts, id) IN segs.k = "arr" /\ Len(segs.a) > 0

\* .filter((doc) => doc.id && !doc.deleted_at)
KeepDoc(doc) == Truthy(doc.id) /\ ~Truthy(doc.deleted_at)

\* Variant: the email is not used.
NameOrUnknown(p) == IF Truthy(p.name) THEN p.name.s ELSE "Unknown"
\* p.name || p.email || 'Unknown'
DisplayName(p) ==
    IF Truthy(p.name) THEN p.name.s ELSE IF Truthy(p.email) THEN p.email.s ELSE "Unknown"

\* The arrow function of .map((doc) => ({...})); it throws a TypeError when
\* doc.people is truthy but no array, or holds a null entry.
PeopleThrow(doc) ==
    /\ Truthy(doc.people)
    /\ \/ doc.people.k # "arr"
       \/ \E i \in 1..Len(doc.people.a) : doc.people.a[i].k = "null"
ToDocument(doc, transcripts, t) ==
    [id |-> doc.id.s,
     title |-> IF Truthy(doc.title) THEN doc.title.s ELSE "Untitled Meeting",
     createdAt |-> parseEpoch(doc.created_at, t),
     participants |-> IF Truthy(doc.people)
                      THEN [i \in 1..Len(doc.people.a) |-> DisplayName(doc.people.a[i])]
                      ELSE <<>>,
     hasTranscript |-> HasSegments(transcripts, doc.id.s)]

\* .sort((a, b) => b.createdAt - a.createdAt): Array.prototype.sort is stable,
\* so each element goes behind every element that does not sort after it.
RECURSIVE InsertDesc(_, _)
InsertDesc(sorted, d) ==
    IF sorted = <<>> THEN <<d>>
    ELSE IF Head(sorted).createdAt >= d.createdAt
         THEN <<Head(sorted)>> \o InsertDesc(Tail(sorted), d)
         ELSE <<d>> \o sorted
RECURSIVE SortAsc(_)
SortAsc(s) ==
    IF s = <<>> THEN <<>>
    ELSE LET rest == SortAsc(Tail(s))
             RECURSIVE Ins(_)
             Ins(r) == IF r = <<>> THEN <<Head(s)>>
                       ELSE IF Head(r).createdAt < Head(s).createdAt
                            THEN <<Head(r)>> \o Ins(Tail(r))
                            ELSE <<Head(s)>> \o r
         IN Ins(rest)
RECURSIVE SortDesc(_)
SortDesc(s) ==
    IF s = <<>> THEN <<>>
    ELSE InsertDesc(SortDesc(SubSeq(s, 1, Len(s) - 1)), s[Len(s)])

\* A limit as the renderer may send it: absent, a number n or n + 1/2, or a
\* value that is no number.
NoLimit == [k |-> "absent", n |-> 0, half |-> FALSE]
LimitNum(n, half) == [k |-> "num", n |-> n, half |-> half]
LimitNaN == [k |-> "str", n |-> 0, half |-> FALSE]
DefaultLimit == 50
\* limit > 0 for a number
Positive(l) == l.n > 0 \/ (l.n = 0 /\ l.half)
\* registerGranolaHandlers: typeof limit === 'number' && limit > 0 ? limit : undefined,
\* then the parameter default limit = 50
safeLimit(limit) ==
    IF limit.k = "num" /\ Positive(limit) THEN limit ELSE LimitNum(DefaultLimit, FALSE)

\* .slice(0, limit): the end index is truncated toward zero; a negative one
\* counts from the end.
SliceEnd(l, len) ==
    LET e == IF l.n < 0 /\ l.half THEN l.n + 1 ELSE l.n
    IN IF e < 0 THEN (IF len + e > 0 THEN len + e ELSE 0)
       ELSE IF e < len THEN e ELSE len
Slice(s, l) == SubSeq(s, 1, SliceEnd(l, Len(s)))

\* getRecentMeetings after `await loadCache()`: res is the loader's result,
\* limit the parameter (default applied), t the value of Date.now().
getRecentMeetings(res, limit, t) ==
    IF res.error # "" THEN Failure(res.error)
    ELSE LET vals == Values(DocsOf(res.state))
             transcripts == TranscriptsOf(res.state)
         IN IF \E i \in 1..Len(vals) : vals[i].k = "null" THEN Rejected   \* doc.id of null
            ELSE LET kept == SelectSeq(vals, KeepDoc)
                 IN IF \E i \in 1..Len(kept) : PeopleThrow(kept[i]) THEN Rejected
                    ELSE LET mapped == [i \in 1..Len(kept) |-> ToDocument(kept[i], transcripts, t)]
                         IN Success(Slice(SortDesc(mapped), limit), res.ageMs)

\* ---------------------------------------------------------------- extractor
RECURSIVE Join(_)
Join(lines) ==
    IF lines = <<>> THEN ""
    ELSE IF Len(lines) = 1 THEN lines[1]
    ELSE lines[1] \o "\n" \o Join(Tail(lines))

\* (s) => s.text || ''
SegText(s) == IF Truthy(s.text) THEN s.text.s ELSE ""
\* Variant: empty texts are kept as lines.
KeepEmpty(str) == TRUE
\* .filter(Boolean)
NonEmpty(str) == str # ""

\* getTranscript after `await loadCache()`
getTranscript(res, documentId) ==
    IF res.error # "" THEN Failure(res.error)
    ELSE LET segments == IF res.state.k = "state" /\ res.state.transcripts.k = "map"
                         THEN Lookup(res.state.transcripts, documentId) ELSE Absent
         IN IF segments.k # "arr" \/ Len(segments.a) = 0 THEN Failure("cache_not_found")
            ELSE IF \E i \in 1..Len(segments.a) : segments.a[i].k = "null" THEN Rejected
            ELSE LET texts == [i \in 1..Len(segments.a) |-> SegText(segments.a[i])]
                 IN Success([documentId |-> documentId,
                             plainText |-> Join(SelectSeq(texts, NonEmpty))],
                            res.ageMs)

\* -------------------------------------------------------------------- state
VARIABLES
    now,            \* the clock as last read (Date.now(), or the stamp of a write)
    dirExists,      \* <appData>/Granola exists
    fileExists,     \* CACHE_PATH exists
    fileContent,    \* its content, a JSON text
    fileMtime,      \* its mtimeMs (kept after a removal: the last stamp given)
    cachedState,    \* let cachedState: CacheState | null
    cachedMtimeMs,  \* let cachedMtimeMs
    loadPromise,    \* let loadPromise: 0 is null, n the promise of the n-th loadCacheImpl
    loads,          \* the executions of loadCacheImpl, in the order they started
    calls,          \* the query calls, in the order they were issued
    nCalls,         \* history: number of query calls issued so far
    fileVer,        \* history: number of writes made to the file
    cachedSrc,      \* history: the write whose content cachedState was decoded from
    io,             \* history: stats, reads and decodes performed since the oldest
                    \* pending call was issued (or by the last load settled)
    envSteps,       \* history: changes made by the external application
    stampReused,    \* history: some write gave the file a stamp it had had before
    stamps,         \* history: the modification times the file has had
    stampKept,      \* history: some write left the file's modification time as it was
    hook,           \* useGranola: documents, loading, error, cacheAge of the panel
    ipc             \* invokes sent and not yet handled, replies on their way back

vars == <<now, dirExists, fileExists, fileContent, fileMtime, cachedState, cachedMtimeMs,
          loadPromise, loads, calls, nCalls, fileVer, cachedSrc, io, envSteps,
          stampReused, stamps, stampKept, hook, ipc>>
fsVars == <<dirExists, fileExists, fileContent, fileMtime, fileVer, envSteps, stampReused,
            stamps, stampKept>>
cacheVars == <<cachedState, cachedMtimeMs, cachedSrc>>
rendererVars == <<hook, ipc>>

\* ------------------------------------------------------------ sample caches
DocA == CacheDoc(Str("a"), Str("Standup"), Str("1970-01-01T00:00:00.001Z"), Absent, Absent)
DocB == CacheDoc(Str("b"), Absent, Str("1970-01-01T00:00:00.002Z"), Absent,
                 Arr(<<Person(Str("Ann"), Absent)>>))
SegsHello == Arr(<<CacheSegment(Str("Hello")), CacheSegment(Str("")), CacheSegment(Str("World"))>>)
StateA == CacheState(Map(<<Entry("a", DocA)>>), Map(<<Entry("a", SegsHello)>>))
StateB == CacheState(Map(<<Entry("a", DocA), Entry("b", DocB)>>), Map(<<>>))
\* {"cache": 123}
CacheNotString == Text(Envelope(Num(123)))
\* The files the external application writes in Spec.
Contents == {CacheFile(StateA), CacheFile(StateB), BadText, CacheNotString}

\* ------------------------------------------------------------------- loader
\* One execution of loadCacheImpl.  pc is the await it is suspended at: the
\* fs call is pending ("access", "stat", "read") or has observed the file
\* system and its callback is queued ("accessCb", "statCb", "readCb").
\* ok, mtime, text, ver are what the last fs call observed; t is Date.now()
\* as read after the stat; path is the branch taken after the stat ("hit":
\* snapshot served, "read": file read).  statText and raced are history: the
\* content the file had when it was stat-ed (kept when the snapshot is going
\* to be served), and whether the file read had been rewritten since the
\* stat (it had another modification time).  pre is history:
\* the file system and the snapshot when the load started, as long as the file
\* system has not changed since (quiet), and in prev the outcome of the load
\* settled before it with the snapshot that load started with, and whether
\* a load before this one read content other than the content it had stat-ed
\* (raced).
NoPrev == [error |-> "none", cached |-> Null, cachedMtime |-> 0, raced |-> FALSE]
Disturbed ==
    [quiet |-> FALSE, dir |-> FALSE, file |-> FALSE, mtime |-> 0, content |-> BadText,
     cached |-> Null, cachedMtime |-> 0, prev |-> NoPrev]
NewLoad ==
    [pc |-> "access", ok |-> FALSE, mtime |-> 0, text |-> BadText, ver |-> 0,
     t |-> 0, ageMs |-> 0, path |-> "", res |-> NoLoadResult, statText |-> BadText,
     raced |-> FALSE,
     pre |-> [quiet |-> TRUE, dir |-> dirExists, file |-> fileExists, mtime |-> fileMtime,
              content |-> fileContent, cached |-> cachedState,
              cachedMtime |-> cachedMtimeMs,
              prev |-> IF loads = <<>> THEN NoPrev
                       ELSE [error |-> loads[Len(loads)].res.error,
                             cached |-> loads[Len(loads)].pre.cached,
                             cachedMtime |-> loads[Len(loads)].pre.cachedMtime,
                             raced |-> \/ loads[Len(loads)].pre.prev.raced
                                       \/ loads[Len(loads)].raced]]]

\* Variant: the age is counted from the recorded modification time.
AgeSinceRecorded(t, mtimeMs) == t - cachedMtimeMs
\* const ageMs = Date.now() - stat.mtimeMs
AgeMs(t, mtimeMs) == t - mtimeMs

\* The clock is read: it has advanced by dt since it was last read.
Elapse(dt) == now + dt <= MaxTime /\ now' = now + dt

InFlight(L) == L \in DOMAIN loads /\ loads[L].pc # "done"

\* Variant: every call starts a load of its own.
NeverJoins == FALSE
\* if (loadPromise) return loadPromise;
Joins == loadPromise # 0

\* Variants: the held snapshot is served whatever the file's mtime; the
\* snapshot is never served.
HitIgnoringMtime(mtimeMs) == cachedState # Null
NeverHit(mtimeMs) == FALSE
\* cachedState && stat.mtimeMs === cachedMtimeMs
CacheHit(mtimeMs) == cachedState # Null /\ mtimeMs = cachedMtimeMs

\* Variant: a joined caller is served the snapshot held before the load settles.
StaleJoinedResult(res) ==
    IF cachedState # Null THEN LoadOk(cachedState, now - cachedMtimeMs, cachedSrc) ELSE res
\* What a caller that joined the in-flight promise receives when it settles.
JoinedResult(res) == res

\* The continuation of a query call once its loadCache() promise is settled
\* (now' is Date.now() in this turn of the event loop).  A call record holds
\* the operation, the argument the renderer sent (raw) and the one the query
\* function got (arg: a limit or a documentId), the load it
\* awaits, what the loader handed it (got) and what it returned (res, at t).
Complete(c, res) ==
    [c EXCEPT !.done = TRUE,
              !.t = now',
              !.got = IF c.initiator THEN res ELSE JoinedResult(res),
              !.res = LET r == IF c.initiator THEN res ELSE JoinedResult(res)
                      IN IF c.op = "docs" THEN getRecentMeetings(r, c.arg, now')
                         ELSE getTranscript(r, c.arg.s)]

\* Variant: the handle is left in place.
HandleKept == loadPromise
\* finally { loadPromise = null }
SettledHandle == 0

\* loadCacheImpl returns res: its promise is settled, and in the same turn of
\* the event loop the initiator's `finally` clears the handle and every
\* caller awaiting the promise continues.
Settle(L, ld, res) ==
    /\ loads' = [loads EXCEPT ![L] = [ld EXCEPT !.pc = "done", !.res = res]]
    /\ loadPromise' = SettledHandle
    /\ calls' = [i \in DOMAIN calls |->
                   IF calls[i].load = L /\ ~calls[i].done
                   THEN Complete(calls[i], res) ELSE calls[i]]
    /\ UNCHANGED <<nCalls>>

\* loadCache() called by a query: join the promise in flight, or start
\* loadCacheImpl, which runs up to its first await (fsPromises.access).
NewCall(op, raw, arg, L, first) ==
    [op |-> op, raw |-> raw, arg |-> arg, load |-> L, initiator |-> first, done |-> FALSE,
     res |-> Pending, got |-> NoLoadResult, t |-> 0, beginVer |-> fileVer]
\* History is kept for the calls pending and those of the last load settled:
\* a call issued when nothing is pending starts a new record.
NoIo == [stat |-> 0, read |-> 0, decode |-> 0]
Idle == \A i \in DOMAIN calls : calls[i].done
Issue(c) ==
    /\ calls' = IF Idle /\ c.load # 0 THEN <<c>> ELSE Append(calls, c)
    /\ nCalls' = nCalls + 1
    /\ io' = IF Idle /\ c.load # 0 THEN NoIo ELSE io
loadCache(op, raw, arg) ==
    IF Joins
    THEN /\ Issue(NewCall(op, raw, arg, loadPromise, FALSE))
         /\ UNCHANGED <<loads, loadPromise>>
    ELSE IF \A L \in DOMAIN loads : loads[L].pc = "done"
    THEN /\ loads' = <<NewLoad>>
         /\ loadPromise' = 1
         /\ Issue(NewCall(op, raw, arg, 1, TRUE))
    ELSE /\ loads' = Append(loads, NewLoad)
         /\ loadPromise' = Len(loads) + 1
         /\ Issue(NewCall(op, raw, arg, Len(loads) + 1, TRUE))

\* Variant: a query drops the held snapshot.
QueryClears == cachedState' = Null /\ cachedMtimeMs' = 0 /\ cachedSrc' = 0
\* granola.ts 118-166: getRecentMeetings and getTranscript assign none of
\* cachedState, cachedMtimeMs; they build their result from fresh arrays.
QueryEffect == UNCHANGED cacheVars

\* ipcMain.handle('granola:get-documents'): sanitize the limit, then
\* getRecentMeetings(safeLimit) up to its `await loadCache()`.
HandleGetDocuments(limit) ==
    /\ loadCache("docs", limit, safeLimit(limit))
    /\ QueryEffect
    /\ UNCHANGED <<now, fsVars>>

\* A documentId as the renderer may send it: a string, or a value that is no
\* string.  trim() of the strings the model uses.
Trim(str) == IF str \in {" ", "  "} THEN "" ELSE str
\* Variant: only the type of the documentId is checked.
NonStringId(id) == id.k # "str"
\* typeof documentId !== 'string' || !documentId.trim()
InvalidDocumentId(id) == id.k # "str" \/ Trim(id.s) = ""

\* ipcMain.handle('granola:get-transcript'): reject an empty documentId, else
\* getTranscript(documentId) up to its `await loadCache()`.
HandleGetTranscript(id) ==
    /\ IF InvalidDocumentId(id)
       THEN /\ Issue([NewCall("transcript", id, id, 0, FALSE) EXCEPT
                         !.done = TRUE, !.t = now, !.res = Failure("cache_not_found")])
            /\ UNCHANGED <<loads, loadPromise>>
       ELSE loadCache("transcript", id, id)
    /\ QueryEffect
    /\ UNCHANGED <<now, fsVars>>

\* Variant: a missing directory reported as a missing file.
AccessErrorAsNotFound == "cache_not_found"
\* granola.ts 64 and 73: the error of a failed access, of a failed stat.
AccessError == "not_installed"
StatError == "cache_not_found"

\* Variant: a failed access clears the snapshot.
AccessFailedClears == cachedState' = Null /\ cachedMtimeMs' = 0 /\ cachedSrc' = 0
\* granola.ts 63-65: a failed access returns at once, the snapshot stays.
AccessFailed == UNCHANGED cacheVars
\* Variant: a failed stat leaves the snapshot.
StatFailedKeeps == UNCHANGED cacheVars
\* granola.ts 70-72: a failed stat clears the snapshot.
StatFailed == cachedState' = Null /\ cachedMtimeMs' = 0 /\ cachedSrc' = 0

\* fsPromises.access observes the directory.
IoAccess(L) ==
    /\ InFlight(L) /\ loads[L].pc = "access"
    /\ loads' = [loads EXCEPT ![L] = [@ EXCEPT !.pc = "accessCb", !.ok = dirExists]]
    /\ UNCHANGED <<now, fsVars, cacheVars, loadPromise, calls, nCalls, io, rendererVars>>

\* granola.ts 61-69: after access; not_installed, or issue the stat.
CbAccess(L) ==
    /\ InFlight(L) /\ loads[L].pc = "accessCb"
    /\ UNCHANGED <<now, fsVars, io, rendererVars>>
    /\ IF ~loads[L].ok
       THEN /\ AccessFailed
            /\ Settle(L, loads[L], LoadError(AccessError))
       ELSE /\ loads' = [loads EXCEPT ![L] = [@ EXCEPT !.pc = "stat"]]
            /\ UNCHANGED <<loadPromise, calls, nCalls, cacheVars>>

\* fsPromises.stat observes the file.
IoStat(L) ==
    /\ InFlight(L) /\ loads[L].pc = "stat"
    /\ loads' = [loads EXCEPT ![L] = [@ EXCEPT !.pc = "statCb", !.ok = dirExists /\ fileExists,
                                                !.mtime = fileMtime,
                                                !.statText = IF dirExists /\ fileExists /\ CacheHit(fileMtime)
                                                             THEN fileContent ELSE BadText]]
    /\ io' = [io EXCEPT !.stat = @ + 1]
    /\ UNCHANGED <<now, fsVars, cacheVars, loadPromise, calls, nCalls, rendererVars>>

\* granola.ts 70-84: after stat; cache_not_found (snapshot cleared), the held
\* snapshot when the file has not changed, or issue the read.
CbStat(L, dt) ==
    /\ InFlight(L) /\ loads[L].pc = "statCb"
    /\ Elapse(dt)
    /\ IF ~loads[L].ok
       THEN /\ StatFailed
            /\ Settle(L, loads[L], LoadError(StatError))
       ELSE IF CacheHit(loads[L].mtime)
       THEN /\ Settle(L, [loads[L] EXCEPT !.path = "hit", !.t = now'],
                      LoadOk(cachedState, AgeMs(now', loads[L].mtime), cachedSrc))
            /\ UNCHANGED cacheVars
       ELSE /\ loads' = [loads EXCEPT ![L] = [@ EXCEPT !.pc = "read", !.path = "read",
                                                   !.t = now', !.ageMs = AgeMs(now', loads[L].mtime)]]
            /\ UNCHANGED <<loadPromise, calls, nCalls, cacheVars>>
    /\ UNCHANGED <<fsVars, io, rendererVars>>

\* fsPromises.readFile observes the content (or fails: the file is gone).
IoRead(L) ==
    /\ InFlight(L) /\ loads[L].pc = "read"
    /\ loads' = [loads EXCEPT ![L] = [@ EXCEPT !.pc = "readCb", !.ok = dirExists /\ fileExists,
                                                !.text = fileContent, !.ver = fileVer,
                                                !.raced = /\ dirExists /\ fileExists
                                                          /\ fileMtime # loads[L].mtime]]
    /\ io' = [io EXCEPT !.read = @ + 1]
    /\ UNCHANGED <<now, fsVars, cacheVars, loadPromise, calls, nCalls, rendererVars>>

\* granola.ts 84-105: after readFile; decode and store, or report the error.
CbRead(L, dt) ==
    /\ InFlight(L) /\ loads[L].pc = "readCb"
    /\ Elapse(dt)
    /\ LET d == IF loads[L].ok THEN Decode(loads[L].text) ELSE [out |-> "throw", state |-> Null]
       IN /\ io' = IF loads[L].ok THEN [io EXCEPT !.decode = @ + 1] ELSE io
          /\ CASE d.out = "ok" ->
                    /\ cachedState' = d.state
                    /\ cachedMtimeMs' = loads[L].mtime
                    /\ cachedSrc' = loads[L].ver
                    /\ Settle(L, loads[L], LoadOk(d.state, loads[L].ageMs, loads[L].ver))
               [] d.out = "error" ->
                    /\ UNCHANGED cacheVars
                    /\ Settle(L, loads[L], LoadError("cache_parse_error"))
               [] OTHER ->
                    /\ cachedState' = Null
                    /\ cachedMtimeMs' = 0
                    /\ cachedSrc' = 0
                    /\ Settle(L, loads[L], LoadError("cache_parse_error"))
    /\ UNCHANGED <<fsVars, rendererVars>>

\* -------------------------------------------------------------- environment
\* Any change of the file system ends the quiet of the loads in flight.
Disturb == [L \in DOMAIN loads |->
              IF loads[L].pc # "done" THEN [loads[L] EXCEPT !.pre = Disturbed] ELSE loads[L]]

\* The external application writes the cache file; the file system stamps it
\* with the current time.
ExternalWrite(c, dt) ==
    /\ envSteps < MaxEnv
    /\ dirExists
    /\ Elapse(dt)
    /\ fileExists' = TRUE
    /\ fileContent' = c
    /\ fileMtime' = now'
    /\ fileVer' = fileVer + 1
    /\ stampReused' = (stampReused \/ now' \in stamps)
    /\ stamps' = stamps \cup {now'}
    /\ stampKept' = (stampKept \/ fileMtime = now')
    /\ envSteps' = envSteps + 1
    /\ loads' = Disturb
    /\ UNCHANGED <<dirExists, cacheVars, loadPromise, calls, nCalls, io, rendererVars>>

\* An earlier cache file is put back in place with the modification time it
\* had, older than the present one (a restored backup, a copy that preserves
\* times, a synchronised folder).
Backups == {CacheFile(StateA), CacheFile(StateB)}
RestoreFile(c, m) ==
    /\ envSteps < MaxEnv
    /\ dirExists
    /\ m \in stamps /\ m < fileMtime
    /\ fileExists' = TRUE
    /\ fileContent' = c
    /\ fileMtime' = m
    /\ fileVer' = fileVer + 1
    /\ stampReused' = (stampReused \/ m \in stamps)
    /\ stamps' = stamps \cup {m}
    /\ stampKept' = stampKept
    /\ envSteps' = envSteps + 1
    /\ loads' = Disturb
    /\ UNCHANGED <<now, dirExists, cacheVars, loadPromise, calls, nCalls, io, rendererVars>>

\* The cache file is removed.
DeleteFile ==
    /\ envSteps < MaxEnv
    /\ fileExists
    /\ fileExists' = FALSE
    /\ fileContent' = BadText
    /\ envSteps' = envSteps + 1
    /\ loads' = Disturb
    /\ UNCHANGED <<now, dirExists, fileMtime, fileVer, stampReused, stamps,
                   stampKept, cacheVars,
                   loadPromise, calls, nCalls, io,
                   rendererVars>>

\* The vendor directory goes away (uninstalled, moved, unmounted); what it
\* held is out of reach until it is back.
RemoveDir ==
    /\ envSteps < MaxEnv
    /\ dirExists
    /\ dirExists' = FALSE
    /\ envSteps' = envSteps + 1
    /\ loads' = Disturb
    /\ UNCHANGED <<now, fileExists, fileContent, fileMtime, fileVer, stampReused,
                   stamps, stampKept, cacheVars, loadPromise, calls, nCalls, io,
                   rendererVars>>

\* The vendor directory is back (or the application is installed).
CreateDir ==
    /\ envSteps < MaxEnv
    /\ ~dirExists
    /\ dirExists' = TRUE
    /\ envSteps' = envSteps + 1
    /\ loads' = Disturb
    /\ UNCHANGED <<now, fileExists, fileContent, fileMtime, fileVer, stampReused,
                   stamps, stampKept, cacheVars, loadPromise, calls, nCalls, io,
                   rendererVars>>

\* ------------------------------------------------------------ specification
\* The module state after import (granola.ts 47-51), in any file system.
\* ----------------------------------------------------------------- renderer
\* useGranola: the state of the hook when the panel mounts (useState).
useGranola == [documents |-> <<>>, loading |-> FALSE, error |-> Null, cacheAge |-> Null]
\* window.maestro.granola.getDocuments: sent counts the invokes made, req those
\* the main process has not handled yet, replied the replies it has sent,
\* inbox the replies the renderer has not received yet, oldest first.
NoIpc == [sent |-> 0, req |-> 0, replied |-> 0, inbox |-> <<>>]

\* fetchDocuments up to its await: setLoading(true), setError(null), invoke.
fetchDocuments ==
    /\ ipc.sent < MaxCalls
    /\ hook' = [hook EXCEPT !.loading = TRUE, !.error = Null]
    /\ ipc' = [ipc EXCEPT !.sent = @ + 1, !.req = @ + 1]
    /\ UNCHANGED <<now, fsVars, cacheVars, loadPromise, loads, calls, nCalls, io>>

\* The calls whose result the main process has still to send back; calls
\* holds the last Len(calls) of the nCalls calls handled.
Unsent == {i \in DOMAIN calls : calls[i].done /\ nCalls - Len(calls) + i > ipc.replied}
\* The main process handles an invoke ('granola:get-documents', limit 50).
HandleInvoke ==
    /\ ipc.req > 0 /\ Unsent = {}
    /\ HandleGetDocuments(LimitNum(DefaultLimit, FALSE))
    /\ ipc' = [ipc EXCEPT !.req = @ - 1]
    /\ UNCHANGED hook
\* The handler's promise has settled: its value (or rejection) is sent back.
SendReply ==
    /\ Unsent # {}
    /\ LET i == CHOOSE j \in Unsent : \A k \in Unsent : j <= k
       IN ipc' = [ipc EXCEPT !.replied = @ + 1, !.inbox = Append(@, calls[i].res)]
    /\ UNCHANGED <<now, fsVars, cacheVars, loadPromise, loads, calls, nCalls, io, hook>>

\* fetchDocuments after its await, for the reply r: the success branch, the
\* failure branch or the catch block, then the finally block.
AfterReply(h, r) ==
    IF r.kind = "success"
    THEN [h EXCEPT !.documents = r.data,
                   !.cacheAge = IF r.cacheAge.k = "absent" THEN Null ELSE r.cacheAge,
                   !.loading = FALSE]
    ELSE IF r.kind = "failure"
    THEN [h EXCEPT !.error = Str(r.error), !.documents = <<>>, !.loading = FALSE]
    ELSE [h EXCEPT !.error = Str("cache_parse_error"), !.documents = <<>>, !.loading = FALSE]
\* The oldest reply on its way reaches the renderer.
ReceiveReply ==
    /\ ipc.inbox # <<>>
    /\ hook' = AfterReply(hook, Head(ipc.inbox))
    /\ ipc' = [ipc EXCEPT !.inbox = Tail(@)]
    /\ UNCHANGED <<now, fsVars, cacheVars, loadPromise, loads, calls, nCalls, io>>

InitProgram ==
    /\ now = 1
    /\ cachedState = Null
    /\ cachedMtimeMs = 0
    /\ cachedSrc = 0
    /\ loadPromise = 0
    /\ loads = <<>>
    /\ calls = <<>>
    /\ nCalls = 0
    /\ fileVer = 0
    /\ io = NoIo
    /\ envSteps = 0
    /\ stampReused = FALSE
    /\ stampKept = FALSE
    /\ hook = useGranola
    /\ ipc = NoIpc

Init ==
    /\ InitProgram
    /\ dirExists \in BOOLEAN
    /\ fileExists \in BOOLEAN
    /\ fileContent \in (IF fileExists THEN Contents ELSE {BadText})
    /\ fileMtime = (IF fileExists THEN 1 ELSE 0)
    /\ stamps = (IF fileExists THEN {1} ELSE {})

\* The time between two readings of the clock.
Delays == {0, 1}

LoaderStep ==
    \E L \in DOMAIN loads :
        \/ IoAccess(L)
        \/ CbAccess(L)
        \/ IoStat(L)
        \/ \E dt \in Delays : CbStat(L, dt)
        \/ IoRead(L)
        \/ \E dt \in Delays : CbRead(L, dt)

\* Spec: the loader against the external application.  The renderer asks for
\* the document list (useGranola: getDocuments(50)) at any time, up to
\* MaxCalls times, while the external application rewrites, restores or
\* removes the cache file and the directory comes and goes.
Next ==
    \/ nCalls < MaxCalls /\ HandleGetDocuments(LimitNum(DefaultLimit, FALSE))
                          /\ UNCHANGED rendererVars
    \/ LoaderStep
    \/ \E c \in Contents, dt \in Delays : ExternalWrite(c, dt)
    \/ \E c \in Backups, m \in 1..MaxTime : RestoreFile(c, m)
    \/ DeleteFile
    \/ RemoveDir
    \/ CreateDir

Spec == Init /\ [][Next]_vars

\* ------------------------------------------------- the query API on any cache
\* Raw documents as the external application may leave them; id is the key
\* the record is stored under.
Template(n, id) ==
    CASE n = 1 -> CacheDoc(Str(id), Str("Standup"), Str("1970-01-01T00:00:00.002Z"), Absent,
                           Arr(<<Person(Str("Ann"), Str("ann@x.io")),
                                 Person(Absent, Str("bob@x.io")),
                                 Person(Str(""), Absent)>>))
      [] n = 2 -> CacheDoc(Str(id), Absent, Absent, Absent, Absent)
      [] n = 3 -> CacheDoc(Str(id), Str("Removed"), Str("1970-01-01T00:00:00.003Z"),
                           Str("2024-01-01T00:00:00Z"), Absent)
      [] n = 4 -> CacheDoc(Str(id), Str(""), Str("1970-01-01T00:00:00.001Z"), Null, Arr(<<>>))
      [] n = 5 -> Null
      [] n = 6 -> CacheDoc(Str(id), Str("Retro"), Str("not a date"), Str(""), Absent)
      [] OTHER -> CacheDoc(Absent, Str("No id"), Str("1970-01-01T00:00:00.002Z"), Absent, Absent)
Templates == 1..7
DocIds == <<"a", "b", "c", "d">>
Documents(f) == Map([i \in DOMAIN f |-> Entry(DocIds[i], Template(f[i], DocIds[i]))])
DocSeqs == UNION {[1..n -> Templates] : n \in 0..MaxDocs}

TranscriptPool ==
    {Absent,
     Map(<<Entry("a", SegsHello), Entry("b", Arr(<<>>))>>),
     Map(<<Entry("a", Arr(<<CacheSegment(Absent)>>)), Entry("b", Str("none"))>>),
     Map(<<Entry("b", Arr(<<CacheSegment(Str("Only")), Null>>))>>)}

\* Files that are no well-formed cache: not JSON, JSON null, {"cache": 123},
\* {}, an inner string that is not JSON, inner null, inner {}, {"state": null}.
MalformedFiles ==
    {BadText, Text(Null), CacheNotString, Text(Envelope(Absent)),
     Text(Envelope(StrText(BadText))), Text(Envelope(StrText(Text(Null)))),
     CacheFile(Absent), CacheFile(Null)}
\* {"state": 5}, {"state": {}} and {"state": {"documents": null, "transcripts": null}}
OddStates == {Num(5), CacheState(Absent, Absent), CacheState(Null, Null)}
QueryStates ==
    {CacheState(Documents(f), t) : f \in DocSeqs, t \in TranscriptPool} \cup OddStates
QueryContents == {CacheFile(st) : st \in QueryStates} \cup MalformedFiles

\* What the renderer may send: no limit, 0, -1, 1, 2, 0.5, 1.5, "x"; and
\* document ids (one of them a number).
QueryLimits ==
    {NoLimit, LimitNum(0, FALSE), LimitNum(-1, FALSE), LimitNum(1, FALSE), LimitNum(2, FALSE),
     LimitNum(0, TRUE), LimitNum(1, TRUE), LimitNaN}
QueryIds == {Str(""), Str(" "), Str("a"), Str("b"), Str("zz"), Num(7)}

InitQuery ==
    /\ InitProgram
    /\ dirExists = TRUE
    /\ fileExists = TRUE
    /\ fileContent \in QueryContents
    /\ fileMtime = 1
    /\ stamps = {1}

\* SpecQuery: the two query operations on every cache file above.  The panel
\* asks for the list when it mounts (GranolaPanel: fetchDocuments()); then
\* one query with any argument arrives, while that load is in flight or
\* after it.
NextQuery ==
    \/ nCalls = 0 /\ HandleGetDocuments(LimitNum(DefaultLimit, FALSE))
                   /\ UNCHANGED rendererVars
    \/ nCalls = 1 /\ (\E l \in QueryLimits : HandleGetDocuments(l))
                   /\ UNCHANGED rendererVars
    \/ nCalls = 1 /\ (\E id \in QueryIds : HandleGetTranscript(id))
                   /\ UNCHANGED rendererVars
    \/ LoaderStep

SpecQuery == InitQuery /\ [][NextQuery]_vars

\* --------------------------------------------------------- concurrent calls
\* Both queries called at any moment of a load, on a file system at rest.
CallIds == {Str("a"), Str("zz"), Str("")}
NextCalls ==
    \/ nCalls < MaxCalls /\ HandleGetDocuments(LimitNum(DefaultLimit, FALSE))
                          /\ UNCHANGED rendererVars
    \/ nCalls < MaxCalls /\ (\E id \in CallIds : HandleGetTranscript(id))
                          /\ UNCHANGED rendererVars
    \/ LoaderStep

SpecCalls == Init /\ [][NextCalls]_vars

\* ---------------------------------------------------------------- the panel
\* SpecHook: the hook of the panel against the main process.  fetchDocuments
\* is called at any time (on mount, by Refresh), the main process handles the
\* invokes and replies in the order they were sent, and the external
\* application rewrites or removes the cache file meanwhile.
NextHook ==
    \/ fetchDocuments
    \/ HandleInvoke
    \/ SendReply
    \/ ReceiveReply
    \/ LoaderStep
    \/ \E c \in Contents, dt \in Delays : ExternalWrite(c, dt)
    \/ DeleteFile

SpecHook == Init /\ [][NextHook]_vars

\* ------------------------------------------------------------------- claims
Awaiting(i) == i \in DOMAIN calls /\ ~calls[i].done
Served(i) == i \in DOMAIN calls /\ calls[i].done /\ calls[i].load # 0
DoneLoad(L) == L \in DOMAIN loads /\ loads[L].pc = "done"

\* C1. Single-flight: the calls issued before the first of them completes all
\* await one execution of the loader, and since the first of them was issued
\* the file has been stat-ed at most once, read at most once and decoded at
\* most once.
SingleFlight ==
    /\ io.stat <= 1 /\ io.read <= 1 /\ io.decode <= 1
    /\ \A i, j \in DOMAIN calls : Awaiting(i) /\ Awaiting(j) => calls[i].load = calls[j].load
    /\ Cardinality({L \in DOMAIN loads : InFlight(L)}) <= 1
\* Three calls, of both queries, served by one load that read and decoded once.
SingleFlightWitness ==
    /\ Len(calls) = 3 /\ Len(loads) = 1
    /\ \A i \in DOMAIN calls : Served(i) /\ calls[i].load = 1 /\ calls[i].res.kind = "success"
    /\ \E i, j \in DOMAIN calls : calls[i].op = "docs" /\ calls[j].op = "transcript"
    /\ io = [stat |-> 1, read |-> 1, decode |-> 1]

\* C2. A caller that joined a load in flight is handed exactly what the caller
\* that started the load is handed (the same error, or the same state and the
\* same ageMs), which is the outcome of that load.
JoinedSameOutcome ==
    \A i, j \in DOMAIN calls :
        Served(i) /\ Served(j) /\ calls[i].load = calls[j].load
            => /\ calls[i].got = calls[j].got
               /\ calls[i].t = calls[j].t
               /\ DoneLoad(calls[i].load)
               /\ calls[i].got = loads[calls[i].load].res
\* A caller joined a load that replaced a held snapshot, and both got the new state.
JoinedSameOutcomeWitness ==
    \E i, j \in DOMAIN calls :
        /\ Served(i) /\ Served(j) /\ calls[i].load = calls[j].load
        /\ calls[i].initiator /\ ~calls[j].initiator
        /\ calls[j].got.error = ""
        /\ loads[calls[j].load].pre.cached \notin {Null, calls[j].got.state}

\* C3 as stated. A call that began after a write completed never returns
\* data decoded from content older than that write, joined calls included.
Freshness ==
    \A i \in DOMAIN calls :
        Served(i) /\ calls[i].res.kind = "success" => calls[i].got.src >= calls[i].beginVer
\* C3, amended. A call that starts its own load never returns data decoded
\* from content older than a write completed before the call began, as long
\* as every write has given the file a modification time it did not have.
FreshnessOwnLoad ==
    ~stampReused =>
        \A i \in DOMAIN calls :
            Served(i) /\ calls[i].initiator /\ calls[i].res.kind = "success"
                => calls[i].got.src >= calls[i].beginVer
\* A call began after the second write and was served the content of that
\* write, replacing a snapshot of older content.
FreshnessOwnLoadWitness ==
    /\ ~stampReused
    /\ \E i \in DOMAIN calls :
          /\ Served(i) /\ calls[i].initiator /\ calls[i].res.kind = "success"
          /\ calls[i].beginVer = 2 /\ calls[i].got.src = 2
          /\ loads[calls[i].load].pre.cached \notin {Null, calls[i].got.state}

\* A load that ran from start to end with no change of the file system.
QuietLoad(L) == DoneLoad(L) /\ loads[L].pre.quiet
\* Such a load found the directory and the file, and held a snapshot recorded
\* (Same) or not recorded (~Same) at the file's modification time.
FoundFile(L) == QuietLoad(L) /\ loads[L].pre.dir /\ loads[L].pre.file
SameMtime(L) == loads[L].pre.cached # Null /\ loads[L].pre.mtime = loads[L].pre.cachedMtime

\* C4. Cache hit: a call made with no load in flight, after a call has
\* succeeded (a snapshot is held), with the directory and the file present
\* and the file's modification time equal to the recorded one, reads nothing,
\* decodes nothing and returns the held snapshot state, which stays held.
CacheHitNoReread ==
    \A L \in DOMAIN loads :
        FoundFile(L) /\ SameMtime(L)
            => /\ io.read = 0 /\ io.decode = 0
               /\ loads[L].res.error = ""
               /\ loads[L].res.state = loads[L].pre.cached
               /\ loads[L].res.ageMs = loads[L].t - loads[L].pre.mtime
               /\ cachedState = loads[L].pre.cached
               /\ cachedMtimeMs = loads[L].pre.cachedMtime
               /\ \A i \in DOMAIN calls :
                      calls[i].load = L => calls[i].done /\ calls[i].got = loads[L].res
\* A later call was answered from the snapshot, one clock tick after the file
\* was written.
CacheHitNoRereadWitness ==
    \E L \in DOMAIN loads :
        /\ FoundFile(L) /\ SameMtime(L)
        /\ io = [stat |-> 1, read |-> 0, decode |-> 0]
        /\ loads[L].res.state = loads[L].pre.cached
        /\ loads[L].res.ageMs = 1
        /\ \E i \in DOMAIN calls : calls[i].load = L /\ calls[i].res.kind = "success"

\* C5. Invalidation: when the file's modification time is not the recorded
\* one, a call made with no load in flight reads the file once; if the new
\* content decodes, the call returns its state, the snapshot and the recorded
\* modification time are replaced by the new state and the new modification
\* time, and the age is the clock minus the new modification time.
Invalidation ==
    \A L \in DOMAIN loads :
        FoundFile(L) /\ loads[L].pre.mtime # loads[L].pre.cachedMtime
            => LET d == Decode(loads[L].pre.content)
               IN /\ io.read = 1 /\ io.decode = 1
                  /\ d.out = "ok"
                       => /\ loads[L].res.error = ""
                          /\ loads[L].res.state = d.state
                          /\ loads[L].res.ageMs = loads[L].t - loads[L].pre.mtime
                          /\ cachedState = d.state
                          /\ cachedMtimeMs = loads[L].pre.mtime
                  /\ d.out # "ok" => loads[L].res.error = "cache_parse_error"
\* After a write, a call replaced the held snapshot by the state of the new
\* content and reported age 0.
InvalidationWitness ==
    \E L \in DOMAIN loads :
        /\ FoundFile(L) /\ fileVer >= 1
        /\ loads[L].pre.cached # Null
        /\ loads[L].pre.mtime > loads[L].pre.cachedMtime
        /\ loads[L].res.error = ""
        /\ loads[L].res.state # loads[L].pre.cached
        /\ cachedState = loads[L].res.state
        /\ loads[L].res.ageMs = 0

\* C6. Error classification: a load made while the directory does not exist
\* returns not_installed, whatever the file contains and whatever snapshot
\* is held; a load made while the directory exists and the file does not
\* returns cache_not_found.
ErrorClassification ==
    \A L \in DOMAIN loads :
        /\ QuietLoad(L) /\ ~loads[L].pre.dir => loads[L].res = LoadError("not_installed")
        /\ QuietLoad(L) /\ loads[L].pre.dir /\ ~loads[L].pre.file
              => loads[L].res = LoadError("cache_not_found")
\* not_installed returned while a decodable file is in place and a snapshot
\* is held.
ErrorClassificationWitness ==
    \E L \in DOMAIN loads :
        /\ QuietLoad(L) /\ ~loads[L].pre.dir /\ loads[L].pre.file
        /\ Decode(loads[L].pre.content).out = "ok"
        /\ loads[L].pre.cached # Null /\ cachedState # Null
        /\ loads[L].res = LoadError("not_installed")

\* The file holds a cache: JSON whose `cache` is a string holding JSON whose
\* `state` is an object.
IsCache(text) ==
    /\ text.ok /\ text.v.k = "envelope" /\ text.v.cache.k = "strtext"
    /\ text.v.cache.t.ok /\ text.v.cache.t.v.k = "inner"
    /\ text.v.cache.t.v.state.k = "state"
\* Call i was served by a load that read and decoded the file.
Decoded(i) == Served(i) /\ DoneLoad(calls[i].load) /\ loads[calls[i].load].path = "read"
                        /\ loads[calls[i].load].ok

\* C7. Every decode failure is reported as cache_parse_error: a call served
\* by the decoding of a file that is not JSON, whose `cache` is not a string,
\* whose inner string is not JSON or whose inner document has no `state`
\* object returns Failure{cache_parse_error}.
DecodeFailureIsParseError ==
    \A i \in DOMAIN calls :
        Decoded(i) /\ ~IsCache(loads[calls[i].load].text)
            => calls[i].res = Failure("cache_parse_error")

\* C8. getTranscript with an empty documentId returns Failure{cache_not_found}
\* in the step of the call, and that step starts no load, lets no load
\* advance (no directory check, no stat, no read) and leaves the snapshot and
\* the single-flight handle as they are.
EmptyIdCall ==
    /\ nCalls' = nCalls + 1
    /\ calls'[Len(calls')].op = "transcript"
    /\ calls'[Len(calls')].arg = Str("")
EmptyIdNoLoad ==
    [][EmptyIdCall =>
          /\ calls'[Len(calls')].done
          /\ calls'[Len(calls')].res = Failure("cache_not_found")
          /\ UNCHANGED <<loads, loadPromise, cachedState, cachedMtimeMs, io, fsVars>>]_vars
\* The call has returned while the load of an earlier call is still waiting
\* for its directory check.
EmptyIdNoLoadWitness ==
    /\ Len(calls) = 2 /\ ~calls[1].done
    /\ calls[2].op = "transcript" /\ calls[2].arg = Str("")
    /\ calls[2].done /\ calls[2].res = Failure("cache_not_found")
    /\ loadPromise = 1 /\ loads[1].pc = "access" /\ io = NoIo

\* C9. No exception escapes the Query API: every call that completes returns
\* Success or a Failure of one of the three kinds; none rejects.
NoRejection ==
    \A i \in DOMAIN calls :
        calls[i].done =>
            \/ calls[i].res.kind = "success"
            \/ calls[i].res.kind = "failure" /\ calls[i].res.error \in GranolaErrorType

\* The documents of a state that getRecentMeetings lists, by position in the
\* source map, and the position of a listed document.
Listed(st) == {p \in 1..Len(DocsOf(st).m) : KeepDoc(DocsOf(st).m[p].val)}
SrcPos(st, id) == CHOOSE p \in Listed(st) : DocsOf(st).m[p].val.id.s = id
\* Document d stands before the document at position p of the source map in
\* the full sorted list (t is the clock when the list was made).
Before(st, d, p, t) ==
    LET c == parseEpoch(DocsOf(st).m[p].val.created_at, t)
    IN d.createdAt > c \/ (d.createdAt = c /\ SrcPos(st, d.id) < p)
Min(a, b) == IF a < b THEN a ELSE b

\* C10. The list returned by getRecentMeetings is sorted by createdAt in
\* non-increasing order, documents of equal createdAt keep their order in
\* the source map, and the list is the first `limit` elements of the full
\* sorted list: no longer than the limit, and every listed document left
\* out sorts after every document returned.
SortedAndLimited ==
    \A i \in DOMAIN calls :
        Served(i) /\ calls[i].op = "docs" /\ calls[i].res.kind = "success"
          => LET data == calls[i].res.data
                 st == calls[i].got.state
                 ids == {data[p].id : p \in DOMAIN data}
             IN /\ \A p, q \in DOMAIN data :
                      p < q => /\ data[p].createdAt >= data[q].createdAt
                               /\ data[p].createdAt = data[q].createdAt
                                     => SrcPos(st, data[p].id) < SrcPos(st, data[q].id)
                /\ Len(data) <= calls[i].arg.n
                /\ Len(data) = Min(calls[i].arg.n, Cardinality(Listed(st)))
                /\ \A p \in DOMAIN data : \E q \in Listed(st) :
                      DocsOf(st).m[q].val.id.s = data[p].id
                /\ \A p \in DOMAIN data, q \in Listed(st) :
                      DocsOf(st).m[q].val.id.s \notin ids
                          => Before(st, data[p], q, calls[i].t)
\* Limit 1 on two documents stored oldest first: the newer one is returned.
SortedAndLimitedWitness ==
    \E i \in DOMAIN calls :
        /\ Served(i) /\ calls[i].op = "docs" /\ calls[i].res.kind = "success"
        /\ calls[i].arg = LimitNum(1, FALSE)
        /\ Cardinality(Listed(calls[i].got.state)) = 2
        /\ Len(calls[i].res.data) = 1
        /\ SrcPos(calls[i].got.state, calls[i].res.data[1].id) = 2
        /\ Before(calls[i].got.state, calls[i].res.data[1], 1, calls[i].t)
        /\ calls[i].res.data[1].createdAt = 2

\* A limit that is no positive integer.
NotPositiveInteger(l) == l.k # "num" \/ l.half \/ l.n <= 0

\* C11. A limit sent by the caller that is no positive integer (zero,
\* negative, fractional, no number, absent) is replaced by the default: the
\* call returns what it returns for limit = 50.
DefaultForBadLimit ==
    \A i \in DOMAIN calls :
        Served(i) /\ calls[i].op = "docs" /\ NotPositiveInteger(calls[i].raw)
            => calls[i].res =
                 getRecentMeetings(calls[i].got, LimitNum(DefaultLimit, FALSE), calls[i].t)

\* The ids of the documents a call returned.
ReturnedIds(i) == {calls[i].res.data[p].id : p \in DOMAIN calls[i].res.data}
\* The raw record at position p carries a delete marker: deleted_at is
\* present and not null.
Marked(st, p) == DocsOf(st).m[p].val.deleted_at.k \notin {"absent", "null"}

\* C12. Soft-delete filtering: no raw document whose deleted_at is present
\* and not null is in the list getRecentMeetings returns, with or without a
\* transcript for its id; and every raw document with an id and without such
\* a marker is in the list unless the limit cuts it off.
SoftDeleteFiltered ==
    \A i \in DOMAIN calls :
        Served(i) /\ calls[i].op = "docs" /\ calls[i].res.kind = "success"
          => LET st == calls[i].got.state
             IN \A p \in 1..Len(DocsOf(st).m) :
                  LET d == DocsOf(st).m[p].val
                  IN /\ Marked(st, p) /\ d.id.k = "str" => d.id.s \notin ReturnedIds(i)
                     /\ ~Marked(st, p) /\ d.id.k = "str" /\ d.id.s # ""
                           /\ Len(calls[i].res.data) < calls[i].arg.n
                         => d.id.s \in ReturnedIds(i)

\* State st holds, for the id, a sequence of at least one segment.
SegmentsStored(st, id) ==
    /\ st.k = "state" /\ st.transcripts.k = "map"
    /\ \E e \in 1..Len(st.transcripts.m) :
          /\ st.transcripts.m[e].key = id
          /\ st.transcripts.m[e].val.k = "arr"
          /\ Len(st.transcripts.m[e].val.a) > 0

\* C13. For every document getRecentMeetings returns, hasTranscript is true
\* exactly when the transcripts of the snapshot the call was served hold a
\* sequence of length > 0 for the document's id; the flag is computed by the
\* call, the snapshot held by the loader is the decoded state as it is.
HasTranscriptIff ==
    /\ \A i \in DOMAIN calls :
          Served(i) /\ calls[i].op = "docs" /\ calls[i].res.kind = "success"
            => \A p \in DOMAIN calls[i].res.data :
                  calls[i].res.data[p].hasTranscript
                      <=> SegmentsStored(calls[i].got.state, calls[i].res.data[p].id)
    /\ cachedState # Null => cachedState = Decode(fileContent).state
\* Two documents returned: one with segments, one whose entry is an empty list.
HasTranscriptIffWitness ==
    \E i \in DOMAIN calls :
        /\ Served(i) /\ calls[i].op = "docs" /\ calls[i].res.kind = "success"
        /\ Len(calls[i].res.data) = 2
        /\ \E p, q \in DOMAIN calls[i].res.data :
              /\ calls[i].res.data[p].hasTranscript
              /\ ~calls[i].res.data[q].hasTranscript
              /\ Lookup(calls[i].got.state.transcripts, calls[i].res.data[q].id) = Arr(<<>>)

\* The lines of a list of segments: the non-empty texts in source order, a
\* newline between two of them.
RECURSIVE Lines(_)
Lines(segs) ==
    IF segs = <<>> THEN ""
    ELSE LET front == Lines(SubSeq(segs, 1, Len(segs) - 1))
             last == segs[Len(segs)]
             txt == IF last.text.k = "str" THEN last.text.s ELSE ""
         IN IF txt = "" THEN front
            ELSE IF front = "" THEN txt ELSE front \o "\n" \o txt
\* The entry of state st for the id (Absent when there is none).
StoredSegments(st, id) ==
    IF st.k = "state" /\ st.transcripts.k = "map" /\
       \E e \in 1..Len(st.transcripts.m) : st.transcripts.m[e].key = id
    THEN st.transcripts.m[CHOOSE e \in 1..Len(st.transcripts.m) :
                              st.transcripts.m[e].key = id].val
    ELSE Absent

\* C14. For an id with a non-empty list of segments getTranscript returns
\* Success whose plainText is the non-empty texts of the segments in source
\* order joined by one newline ([Hello, "", World] gives "Hello\nWorld");
\* for an id without a segment list, or with an empty one, it returns
\* Failure{cache_not_found}.
TranscriptText ==
    \A i \in DOMAIN calls :
        Served(i) /\ calls[i].op = "transcript" /\ calls[i].got.error = ""
          => LET id == calls[i].arg.s
                 segs == StoredSegments(calls[i].got.state, id)
             IN /\ SegmentsStored(calls[i].got.state, id)
                     /\ (\A e \in 1..Len(segs.a) : segs.a[e].k = "seg")
                   => calls[i].res = Success([documentId |-> id, plainText |-> Lines(segs.a)],
                                             calls[i].got.ageMs)
                /\ segs = SegsHello => calls[i].res.data.plainText = "Hello\nWorld"
                /\ ~SegmentsStored(calls[i].got.state, id)
                   => calls[i].res = Failure("cache_not_found")
\* [Hello, "", World] returned as two lines.
TranscriptTextWitness ==
    \E i \in DOMAIN calls :
        /\ Served(i) /\ calls[i].op = "transcript" /\ calls[i].res.kind = "success"
        /\ StoredSegments(calls[i].got.state, calls[i].arg.s) = SegsHello
        /\ calls[i].res.data.plainText = "Hello\nWorld"

\* C15. One variant per result: a Failure carries no data and no cache age;
\* a Success carries the cache age of its load, the clock read after the
\* stat minus the modification time the stat returned, whether the snapshot
\* was served or the file read.
OneVariant ==
    \A i \in DOMAIN calls :
        calls[i].done =>
            /\ calls[i].res.kind = "failure"
                  => calls[i].res.data = <<>> /\ calls[i].res.cacheAge = Absent
            /\ calls[i].res.kind = "success"
                  => /\ Served(i) /\ DoneLoad(calls[i].load)
                     /\ loads[calls[i].load].path \in {"hit", "read"}
                     /\ calls[i].res.cacheAge =
                          Num(loads[calls[i].load].t - loads[calls[i].load].mtime)
\* A Success of a fresh read that returned one tick after the stat: the age
\* is the one at the time of the stat.
OneVariantWitness ==
    \E i \in DOMAIN calls :
        /\ Served(i) /\ calls[i].res.kind = "success"
        /\ loads[calls[i].load].path = "read"
        /\ loads[calls[i].load].mtime = 1 /\ loads[calls[i].load].t = 1
        /\ calls[i].t = 2
        /\ calls[i].res.cacheAge = Num(0)

\* A field holds a non-empty string.
Filled(v) == v.k = "str" /\ v.s # ""
\* The participant a person entry stands for.
Participant(p) ==
    IF Filled(p.name) THEN p.name.s ELSE IF Filled(p.email) THEN p.email.s ELSE "Unknown"
\* A raw document with nothing but its id.
BareDoc(id) == CacheDoc(Str(id), Absent, Absent, Absent, Absent)

\* C16. Missing-field defaults: a raw document with an id and without title,
\* created_at and people is returned with the placeholder title, the current
\* time as createdAt and no participants; a person entry is named by its
\* name, else by its email, else "Unknown", in source order.
MissingFieldDefaults ==
    \A i \in DOMAIN calls :
        Served(i) /\ calls[i].op = "docs" /\ calls[i].res.kind = "success"
          => LET st == calls[i].got.state
                 data == calls[i].res.data
             IN /\ \A p \in DOMAIN data :
                      LET d == DocsOf(st).m[SrcPos(st, data[p].id)].val
                      IN /\ d.title = Absent => data[p].title = "Untitled Meeting"
                         /\ Filled(d.title) => data[p].title = d.title.s
                         /\ d.created_at = Absent => data[p].createdAt = calls[i].t
                         /\ d.people = Absent => data[p].participants = <<>>
                         /\ d.people.k = "arr"
                              => /\ Len(data[p].participants) = Len(d.people.a)
                                 /\ \A j \in 1..Len(d.people.a) :
                                       data[p].participants[j] = Participant(d.people.a[j])
                /\ \A q \in 1..Len(DocsOf(st).m) :
                      LET id == DocsOf(st).m[q].key
                      IN DocsOf(st).m[q].val = BareDoc(id) /\ Len(data) < calls[i].arg.n
                           => \E p \in DOMAIN data :
                                 data[p] = [id |-> id, title |-> "Untitled Meeting",
                                            createdAt |-> calls[i].t, participants |-> <<>>,
                                            hasTranscript |-> SegmentsStored(st, id)]
\* A document with nothing but its id returned with the defaults, beside one
\* whose three person entries use name, email and "Unknown".
MissingFieldDefaultsWitness ==
    \E i \in DOMAIN calls :
        /\ Served(i) /\ calls[i].op = "docs" /\ calls[i].res.kind = "success"
        /\ \E p, q \in DOMAIN calls[i].res.data :
              /\ DocsOf(calls[i].got.state).m[SrcPos(calls[i].got.state,
                                                      calls[i].res.data[p].id)].val
                    = BareDoc(calls[i].res.data[p].id)
              /\ calls[i].res.data[p].title = "Untitled Meeting"
              /\ calls[i].res.data[p].createdAt = calls[i].t
              /\ calls[i].res.data[p].participants = <<>>
              /\ calls[i].res.data[q].participants = <<"Ann", "bob@x.io", "Unknown">>

\* C17. Whenever a load returns cache_parse_error, whatever made the decode
\* fail, no snapshot is held when the load completes: cachedState is null
\* and the recorded modification time is reset.
ParseErrorClears ==
    \A L \in DOMAIN loads :
        DoneLoad(L) /\ loads[L].res.error = "cache_parse_error"
            => cachedState = Null /\ cachedMtimeMs = 0

\* C18. A load that finds the directory and no cache file returns
\* cache_not_found and leaves no snapshot held (cachedState null, recorded
\* modification time 0); the load after it, finding the file back, reads it,
\* even when the file has the modification time of the snapshot held before.
NotFoundClears ==
    \A L \in DOMAIN loads :
        /\ QuietLoad(L) /\ loads[L].pre.dir /\ ~loads[L].pre.file
              => loads[L].res = LoadError("cache_not_found")
        /\ DoneLoad(L) /\ loads[L].res.error = "cache_not_found"
              => cachedState = Null /\ cachedMtimeMs = 0
        /\ loads[L].pre.prev.error = "cache_not_found"
              => /\ loads[L].pre.cached = Null /\ loads[L].pre.cachedMtime = 0
                 /\ FoundFile(L) => loads[L].path = "read" /\ io.read = 1
\* A snapshot was held, the file went away and came back with the same
\* modification time: it was read again.
NotFoundClearsWitness ==
    \E L \in DOMAIN loads :
        /\ FoundFile(L)
        /\ loads[L].pre.prev.error = "cache_not_found"
        /\ loads[L].pre.prev.cached # Null
        /\ loads[L].pre.mtime = loads[L].pre.prev.cachedMtime
        /\ loads[L].path = "read" /\ io.read = 1
        /\ loads[L].res.error = ""

\* C19. A load that returns not_installed leaves the snapshot and its
\* recorded modification time as they were before the load, and performs no
\* stat and no read; the load after it, finding the directory back and the
\* file's modification time equal to the recorded one, serves the snapshot
\* held before, without reading.
NotInstalledKeeps ==
    \A L \in DOMAIN loads :
        /\ QuietLoad(L) /\ loads[L].res.error = "not_installed"
              => /\ cachedState = loads[L].pre.cached
                 /\ cachedMtimeMs = loads[L].pre.cachedMtime
                 /\ io.stat = 0 /\ io.read = 0
        /\ loads[L].pre.prev.error = "not_installed" /\ loads[L].pre.prev.cached # Null
              => /\ loads[L].pre.cached = loads[L].pre.prev.cached
                 /\ loads[L].pre.cachedMtime = loads[L].pre.prev.cachedMtime
                 /\ FoundFile(L) /\ loads[L].pre.mtime = loads[L].pre.prev.cachedMtime
                      => /\ loads[L].path = "hit" /\ io.read = 0
                         /\ loads[L].res.error = ""
                         /\ loads[L].res.state = loads[L].pre.prev.cached
\* A snapshot was held, the directory went away and came back: the snapshot
\* was served without a read.
NotInstalledKeepsWitness ==
    \E L \in DOMAIN loads :
        /\ FoundFile(L)
        /\ loads[L].pre.prev.error = "not_installed"
        /\ loads[L].pre.prev.cached # Null
        /\ loads[L].pre.mtime = loads[L].pre.prev.cachedMtime
        /\ loads[L].path = "hit" /\ io.read = 0
        /\ loads[L].res.state = loads[L].pre.prev.cached

\* C20. The handle is cleared on settlement, whatever the outcome: it is
\* null exactly when no load is executing, no call waits for a settled load,
\* and a load started after an earlier one has settled makes its own
\* directory check and its own stat of the file as it is now.
HandleCleared ==
    /\ loadPromise = 0 => \A L \in DOMAIN loads : ~InFlight(L)
    /\ loadPromise # 0 => InFlight(loadPromise)
    /\ \A i \in DOMAIN calls : Awaiting(i) => calls[i].load = loadPromise
    /\ \A L \in DOMAIN loads :
          QuietLoad(L) /\ loads[L].pre.prev.error # "none"
            => /\ ~loads[L].pre.dir => loads[L].res.error = "not_installed" /\ io.stat = 0
               /\ loads[L].pre.dir => io.stat = 1
               /\ loads[L].pre.dir /\ ~loads[L].pre.file
                     => loads[L].res.error = "cache_not_found"
               /\ FoundFile(L) => /\ loads[L].mtime = loads[L].pre.mtime
                                  /\ loads[L].res.error \in {"", "cache_parse_error"}
\* After a load that failed, the handle was null and the next call made its
\* own stat and read, and succeeded.
HandleClearedWitness ==
    \E L \in DOMAIN loads :
        /\ FoundFile(L) /\ loadPromise = 0
        /\ loads[L].pre.prev.error \in GranolaErrorType
        /\ loads[L].res.error = ""
        /\ io = [stat |-> 1, read |-> 1, decode |-> 1]
        /\ \E i \in DOMAIN calls : calls[i].load = L /\ calls[i].res.kind = "success"

\* C21. Recovery after a parse error: the load that follows a load that
\* returned cache_parse_error, made with the directory and the file present,
\* reads and decodes the file again, and when the file holds a cache it
\* returns the state decoded from it, never a snapshot held from before the
\* failure.
RecoveryAfterParseError ==
    \A L \in DOMAIN loads :
        FoundFile(L) /\ loads[L].pre.prev.error = "cache_parse_error"
            => /\ loads[L].path = "read"
               /\ Decode(loads[L].pre.content).out = "ok"
                     => /\ loads[L].res.error = ""
                        /\ loads[L].res.state = Decode(loads[L].pre.content).state

\* C22. The loader state changes only inside the load operation, and no
\* operation writes the cache file.  In every step of the program the
\* directory and the file are left as they were; the step in which a query is
\* called leaves the snapshot and its recorded modification time unchanged
\* and changes the handle only by installing the load it starts; any other
\* change of the snapshot, the recorded time or the handle is made by the
\* load in flight as it settles, which leaves the state it returned held (or
\* the snapshot kept or cleared on an error) and clears the handle: the
\* queries continuing in that step change nothing.
LoaderStateFrame ==
    /\ UNCHANGED <<dirExists, fileExists, fileContent, fileMtime, fileVer>>
    /\ nCalls' # nCalls =>
          /\ UNCHANGED <<cachedState, cachedMtimeMs>>
          /\ loadPromise' # loadPromise =>
                /\ loadPromise = 0
                /\ loadPromise' \in DOMAIN loads'
                /\ loads'[loadPromise'].pc = "access"
    /\ (/\ nCalls' = nCalls
        /\ <<cachedState, cachedMtimeMs, loadPromise>>' # <<cachedState, cachedMtimeMs, loadPromise>>) =>
          \E L \in DOMAIN loads :
              /\ InFlight(L) /\ loadPromise = L
              /\ loads'[L].pc = "done" /\ loadPromise' = 0
              /\ IF loads'[L].res.error = ""
                 THEN cachedState' = loads'[L].res.state
                 ELSE cachedState' \in {cachedState, Null}
LoaderStateChangesOnlyInLoad == [][LoaderStateFrame]_vars
\* A listing and an extraction have both been served by one load that read
\* the file: the snapshot held is the state that load decoded, recorded at
\* the file's modification time, the handle is clear, the file is as it was.
LoaderStateFrameWitness ==
    /\ loadPromise = 0 /\ cachedState # Null /\ cachedMtimeMs = fileMtime
    /\ cachedState = Decode(fileContent).state
    /\ \E i, j \in DOMAIN calls :
          /\ calls[i].op = "docs" /\ calls[j].op = "transcript"
          /\ Served(i) /\ Served(j) /\ calls[i].load = calls[j].load
          /\ calls[i].res.kind = "success" /\ calls[j].res.kind = "success"
          /\ loads[calls[i].load].path = "read"
          /\ loads[calls[i].load].res.state = cachedState

\* C23 as stated. Provided every external write leaves the file with a
\* modification time other than the one it had just before the write, a load
\* that takes the cache-hit path serves the state decoded from the content
\* the file had when it was stat-ed.
HitServesStatContent ==
    ~stampKept =>
        \A L \in DOMAIN loads :
            DoneLoad(L) /\ loads[L].path = "hit"
                => /\ loads[L].res.error = ""
                   /\ Decode(loads[L].statText).out = "ok"
                   /\ loads[L].res.state = Decode(loads[L].statText).state
\* C23, amended. Provided every external write gives the file a modification
\* time the file never had before, a load that takes the cache-hit path
\* serves the state decoded from the content the file had when it was
\* stat-ed, also when an earlier load read content written after its stat.
HitServesStatContentFreshStamps ==
    ~stampReused =>
        \A L \in DOMAIN loads :
            DoneLoad(L) /\ loads[L].path = "hit"
                => /\ loads[L].res.error = ""
                   /\ Decode(loads[L].statText).out = "ok"
                   /\ loads[L].res.state = Decode(loads[L].statText).state

\* An earlier load stat-ed the first content and read the content of a write
\* made in between (recording it at the older time); a later load re-read the
\* file, and this load, finding the recorded time, serves the snapshot, which
\* is the state the file held at the stat.
HitServesStatContentWitness ==
    /\ ~stampReused /\ fileVer >= 1
    /\ \E L \in DOMAIN loads :
          /\ QuietLoad(L) /\ loads[L].path = "hit"
          /\ loads[L].pre.prev.raced
          /\ loads[L].res.src = fileVer
          /\ loads[L].res.state = Decode(loads[L].statText).state

\* C24. At most one execution of loadCacheImpl is in progress at any time and
\* the handle designates it for as long as it runs, so it stays joinable; the
\* handle is cleared only in the step in which the load it designates settles
\* and the call that started that load continues, never while a load started
\* later is designated by it.
HandleStep ==
    loadPromise # 0 /\ loadPromise' # loadPromise =>
        /\ loadPromise' = 0
        /\ InFlight(loadPromise)
        /\ loads'[loadPromise].pc = "done"
        /\ \E i \in DOMAIN calls :
              /\ calls[i].load = loadPromise /\ calls[i].initiator
              /\ ~calls[i].done /\ calls'[i].done
OneLoadJoinable ==
    /\ [](/\ Cardinality({L \in DOMAIN loads : InFlight(L)}) <= 1
          /\ \A L \in DOMAIN loads : InFlight(L) => loadPromise = L)
    /\ [][HandleStep]_vars
\* A load started after an earlier load settled is running, designated by the
\* handle, awaited by the call that started it and by a call that joined it.
OneLoadJoinableWitness ==
    \E L \in DOMAIN loads :
        /\ InFlight(L) /\ loadPromise = L /\ loads[L].pc = "readCb"
        /\ loads[L].pre.prev.error # "none"
        /\ \E i, j \in DOMAIN calls :
              /\ Awaiting(i) /\ Awaiting(j)
              /\ calls[i].load = L /\ calls[j].load = L
              /\ calls[i].initiator /\ ~calls[j].initiator

\* C25. Listing and extraction agree on one snapshot: when a listing and an
\* extraction are served by the same load, for every document the listing
\* returns under the id the extraction was asked for, the extraction returns
\* Success when the document's hasTranscript is true and
\* Failure{cache_not_found} when it is false.
ListingAgreesWithExtraction ==
    \A i, j \in DOMAIN calls :
        /\ Served(i) /\ Served(j) /\ calls[i].load = calls[j].load
        /\ calls[i].op = "docs" /\ calls[i].res.kind = "success"
        /\ calls[j].op = "transcript" /\ calls[j].arg.k = "str"
        => \A p \in DOMAIN calls[i].res.data :
              calls[i].res.data[p].id = calls[j].arg.s
                  => IF calls[i].res.data[p].hasTranscript
                     THEN calls[j].res.kind = "success"
                     ELSE calls[j].res = Failure("cache_not_found")

\* C26. In the useGranola hook, once every fetchDocuments call made has
\* completed (every invoke handled, every reply received), loading is false
\* and the state does not show both an error and a non-empty document list.
Completed == ipc.sent > 0 /\ ipc.req = 0 /\ ipc.replied = ipc.sent /\ ipc.inbox = <<>>
HookSettled ==
    Completed => /\ hook.loading = FALSE
                 /\ ~(hook.error # Null /\ hook.documents # <<>>)

====
